---- MODULE Spec2Model ----
(***************************************************************************)
(* Model of lutris/config.py: the cascading configuration store            *)
(* (LutrisConfig) with its YAML helpers.  Python dictionaries are objects  *)
(* with identity: a nested mapping lives in `heap` under an object id and  *)
(* documents and `config` hold references to it, so that the aliasing      *)
(* created by `self.config[key] = self.system_config[key]` and the         *)
(* in-place `dict.update` are modelled as the interpreter performs them.   *)
(* A raised exception leaves the assignments made before it in place and   *)
(* is recorded in `err`.                                                   *)
(***************************************************************************)
EXTENDS Integers, Sequences, FiniteSets, TLC

VARIABLES
    disk,           \* path -> file (missing, malformed or YAML text)
    config_type,    \* "system" | "runner" | "game"; "none": no store object
    game,           \* self.game (a slug) or None
    runner,         \* self.runner (a name) or None
    system_config,  \* self.system_config
    runner_config,  \* self.runner_config
    game_config,    \* self.game_config
    config,         \* self.config
    heap,           \* object id -> contents of a nested dict
    err,            \* exception raised by the last operation, or "none"
    lastOp,         \* the last operation and its arguments
    steps           \* number of operations performed so far

vars == <<disk, config_type, game, runner, system_config, runner_config,
          game_config, config, heap, err, lastOp, steps>>

----------------------------------------------------------------------------
(* Bounds and input domains *)

MaxSteps == 4

None == "None"
RunnerNames == {"foo", "bar"}
GameSlugs == {"g1", "g2"}
TKeys == {"system", "a", "runner"}

EmptyMap == [k \in {} |-> 0]
MA == [k \in {"x"} |-> 1]
MB == [k \in {"x", "y"} |-> 2]

\* Scalars standing for integers; every other scalar is a string
IntScalars == {"5"}

\* Orders in which a dict's keys may be iterated
KeyOrders == {o \in [1..Cardinality(TKeys) -> TKeys] :
                \A i, j \in DOMAIN o : i # j => o[i] # o[j]}
CanonOrder == CHOOSE o \in KeyOrders : TRUE

\* The loops of update_global_config treat the keys of a layer independently
\* (no two keys share a dict object), so the iteration order shows only in
\* how far a loop got when an exception ended it: a run that raised under
\* one order is replayed under every order.
OrdersFor(e) == IF e = "none" THEN {CanonOrder} ELSE KeyOrders

----------------------------------------------------------------------------
(* Values.  In memory a value is a scalar or a reference to a dict object; *)
(* in a YAML text (a node) a nested dict is written out inline.            *)

ScalarVal(s) == [isMap |-> FALSE, s |-> s, ref |-> 0]
RefVal(r) == [isMap |-> TRUE, s |-> "", ref |-> r]
ScalarNode(s) == [isMap |-> FALSE, s |-> s, m |-> EmptyMap]
MapNode(m) == [isMap |-> TRUE, s |-> "", m |-> m]

EmptyDoc == [k \in {} |-> ScalarVal("")]
EmptyDocNode == [k \in {} |-> ScalarNode("")]

\* A whole document: a mapping of top-level keys, or (system layer only,
\* after an indexed write) whatever value was written.
DocValue(d) == [isMap |-> TRUE, s |-> "", d |-> d]
ScalarDocValue(s) == [isMap |-> FALSE, s |-> s, d |-> EmptyDoc]
DocNode(d) == [isMap |-> TRUE, s |-> "", d |-> d]
ScalarDocNode(s) == [isMap |-> FALSE, s |-> s, d |-> EmptyDocNode]

Put(f, k, v) == [x \in DOMAIN f \cup {k} |-> IF x = k THEN v ELSE f[x]]

MinOf(S) == CHOOSE i \in S : \A j \in S : i <= j
NewId(h) == MinOf((1..(Cardinality(DOMAIN h) + 1)) \ DOMAIN h)

Refs(d) == {d[k].ref : k \in {x \in DOMAIN d : d[x].isMap}}

\* Contents of an in-memory value / document, nested dicts written out
DeepVal(v, h) == IF v.isMap THEN MapNode(h[v.ref]) ELSE ScalarNode(v.s)
Deep(d, h) == [k \in DOMAIN d |-> DeepVal(d[k], h)]
DeepDoc(dv, h) == IF dv.isMap THEN DocNode(Deep(dv.d, h)) ELSE ScalarDocNode(dv.s)

----------------------------------------------------------------------------
(* Files and the YAML helpers *)

MissingFile == [kind |-> "missing", node |-> DocNode(EmptyDocNode)]
MalformedFile == [kind |-> "malformed", node |-> DocNode(EmptyDocNode)]
YamlFile(node) == [kind |-> "yaml", node |-> node]

system_config_path == "system.yml"
runner_config_path(r) == IF r = None THEN None ELSE "runners/" \o r \o ".yml"
game_config_path(g) == IF g = None THEN None ELSE "games/" \o g \o ".yml"

Paths == {system_config_path}
         \cup {runner_config_path(r) : r \in RunnerNames}
         \cup {game_config_path(g) : g \in GameSlugs}

PathExists(d, p) == p \in DOMAIN d /\ d[p].kind # "missing"

\* Python truth value of a parsed document
Falsy(node) == IF node.isMap THEN DOMAIN node.d = {} ELSE node.s \in {"", "0"}

\* yaml.dump(config): the text written for an in-memory document
YamlDump(dv, h) == DeepDoc(dv, h)

\* yaml.load(content) or {}
YamlLoad(node) == IF Falsy(node) THEN DocNode(EmptyDocNode) ELSE node

read_yaml_from_file(d, filename) ==
    IF filename = None \/ ~PathExists(d, filename) THEN DocNode(EmptyDocNode)
    ELSE IF d[filename].kind = "malformed" THEN DocNode(EmptyDocNode)
    ELSE YamlLoad(d[filename].node)

write_yaml_to_file(d, filepath, dv, h) ==
    [d EXCEPT ![filepath] = YamlFile(YamlDump(dv, h))]

\* The objects the YAML loader builds for a parsed mapping: one new dict
\* object per nested mapping.  Result: [d |-> document, h |-> heap].
RECURSIVE BuildFrom(_, _, _, _)
BuildFrom(nd, ks, acc, h) ==
    IF ks = {} THEN [d |-> acc, h |-> h]
    ELSE LET k == CHOOSE x \in ks : TRUE
             id == NewId(h)
         IN IF nd[k].isMap
            THEN BuildFrom(nd, ks \ {k}, Put(acc, k, RefVal(id)),
                           Put(h, id, nd[k].m))
            ELSE BuildFrom(nd, ks \ {k}, Put(acc, k, ScalarVal(nd[k].s)), h)

Build(nd, h) == BuildFrom(nd, DOMAIN nd, EmptyDoc, h)

\* The object built for a whole parsed document (a mapping or a bare scalar)
BuildDoc(node, h) ==
    IF node.isMap
    THEN LET b == Build(node.d, h) IN [dv |-> DocValue(b.d), h |-> b.h]
    ELSE [dv |-> ScalarDocValue(node.s), h |-> h]

----------------------------------------------------------------------------
(* update_global_config *)

\* Exception raised by dict.update(arg) for a scalar argument
UpdateArgError(s) == IF s \in IntScalars THEN "TypeError" ELSE "ValueError"

\* r.update(q) on dict objects
DictUpdateKeepOld(h, r, q) ==
    [h EXCEPT ![r] = [k \in DOMAIN h[r] \cup DOMAIN h[q] |->
                        IF k \in DOMAIN h[r] THEN h[r][k] ELSE h[q][k]]]
DictUpdate(h, r, q) ==
    [h EXCEPT ![r] = [k \in DOMAIN h[r] \cup DOMAIN h[q] |->
                        IF k \in DOMAIN h[q] THEN h[q][k] ELSE h[r][k]]]

\* self.config[key].update(value)
ConfigUpdate(st, key, new) ==
    LET cur == st.config[key]
    IN IF ~cur.isMap THEN [st EXCEPT !.err = "AttributeError"]
       ELSE IF ~new.isMap THEN [st EXCEPT !.err = UpdateArgError(new.s)]
       ELSE [st EXCEPT !.heap = DictUpdate(st.heap, cur.ref, new.ref)]

\* Body of the loops over the system and the runner document
MergeLowerKey(st, doc, key) ==
    IF key \in DOMAIN st.config
    THEN ConfigUpdate(st, key, doc[key])
    ELSE [st EXCEPT !.config = Put(st.config, key, doc[key])]

\* Body of the loop over the game document
MergeGameKey(st, doc, key) ==
    IF key \in DOMAIN st.config
    THEN IF st.config[key].isMap
         THEN ConfigUpdate(st, key, doc[key])
         ELSE st
    ELSE [st EXCEPT !.config = Put(st.config, key, doc[key])]

\* One of the three loops, over the keys of doc in iteration order `order`
RECURSIVE MergeLayer(_, _, _, _, _)
MergeLayer(st, doc, order, i, isGame) ==
    IF i > Len(order) \/ st.err # "none" THEN st
    ELSE IF order[i] \notin DOMAIN doc
         THEN MergeLayer(st, doc, order, i + 1, isGame)
         ELSE MergeLayer(IF isGame THEN MergeGameKey(st, doc, order[i])
                         ELSE MergeLowerKey(st, doc, order[i]),
                         doc, order, i + 1, isGame)

\* update_global_config on config cfg and heap h; result [config, heap, err]
update_global_config(cfg, h, sys, run, gm, order) ==
    LET st0 == [config |-> cfg, heap |-> h, err |-> "none"]
    IN IF ~sys.isMap
       THEN [st0 EXCEPT !.err = "AttributeError"]   \* no .keys() on a scalar
       ELSE LET st1 == MergeLayer(st0, sys.d, order, 1, FALSE)
                st2 == MergeLayer(st1, run, order, 1, FALSE)
            IN MergeLayer(st2, gm, order, 1, TRUE)

\* Objects still referenced by the store
Live(h, cfg, sys, run, gm) ==
    LET keep == Refs(cfg) \cup Refs(sys.d) \cup Refs(run) \cup Refs(gm)
    IN [i \in DOMAIN h \cap keep |-> h[i]]

----------------------------------------------------------------------------
(* State of the program *)

NoStore == config_type = "none"

\* dict.get(key) on a parsed mapping whose values for the key are scalars
DictGet(nd, key) == IF key \in DOMAIN nd THEN nd[key].s ELSE None

\* Values a caller writes under a key.  The `runner` key holds runner names.
WriteVals(key) ==
    IF key = "runner" THEN {ScalarNode(r) : r \in RunnerNames}
    ELSE {ScalarNode("5"), MapNode(MA), MapNode(MB)}

\* Mappings over the keys ks with values from WriteVals
DocNodes(ks) ==
    UNION {{f \in [K -> UNION {WriteVals(k) : k \in ks}] :
              \A k \in K : f[k] \in WriteVals(k)} : K \in SUBSET ks}

\* The file of path p on a disk made of the five given files
DiskOf(fs, ff, fb, f1, f2) ==
    [p \in Paths |->
        IF p = system_config_path THEN fs
        ELSE IF p = runner_config_path("foo") THEN ff
        ELSE IF p = runner_config_path("bar") THEN fb
        ELSE IF p = game_config_path("g1") THEN f1
        ELSE f2]

RunnerIs(r) == [k \in {"runner"} |-> ScalarNode(r)]
AIs(v) == [k \in {"a"} |-> v]

\* Disks the store is constructed from when only loading is examined
LoadSystemFiles ==
    {MissingFile, MalformedFile}
    \cup {YamlFile(DocNode(d)) : d \in DocNodes({"a"})}
    \cup {YamlFile(DocNode([k \in {"system"} |-> MapNode(MB)]))}
LoadRunnerFiles ==
    {MissingFile, YamlFile(DocNode([k \in {"system"} |-> MapNode(MA)]))}
    \cup {YamlFile(DocNode(d)) : d \in DocNodes({"a"}) \ {EmptyDocNode}}
LoadGameFiles ==
    {MalformedFile} \cup {YamlFile(DocNode(d)) : d \in DocNodes({"a", "runner"})}
LoadDisks ==
    {DiskOf(fs, ff, fb, f1, f2) :
       fs \in LoadSystemFiles, ff \in LoadRunnerFiles,
       fb \in {MissingFile, YamlFile(DocNode(AIs(MapNode(MB))))},
       f1 \in LoadGameFiles,
       f2 \in {MissingFile, YamlFile(DocNode(RunnerIs("bar")))}}

\* Disks the store starts from when its operations are examined
InitDisks ==
    {DiskOf(fs, ff, MissingFile, f1, YamlFile(DocNode(RunnerIs("bar")))) :
       fs \in {MissingFile, YamlFile(DocNode(AIs(ScalarNode("5")))),
               YamlFile(DocNode(AIs(MapNode(MA)))),
               YamlFile(DocNode([k \in {"system"} |-> MapNode(MA)]))},
       ff \in {MissingFile, YamlFile(DocNode(AIs(MapNode(MB))))},
       f1 \in {YamlFile(DocNode(RunnerIs("foo"))),
               YamlFile(DocNode(AIs(MapNode(MA)) @@ RunnerIs("foo")))}}

----------------------------------------------------------------------------
(* LutrisConfig.__init__ *)

\* self.config = {'system': {}}: the first dict object of a new store
InitialHeap == [i \in {NewId(EmptyMap)} |-> EmptyMap]
InitialConfigEmpty == EmptyDoc
InitialConfig == [k \in {"system"} |-> RefVal(NewId(EmptyMap))]

\* self.runner once __init__ has read the game document gnode
RunnerOfExplicit(r, g, gnode) ==
    IF r # None THEN r
    ELSE IF g # None THEN DictGet(gnode.d, "runner") ELSE None
RunnerOf(r, g, gnode) ==
    IF g # None THEN DictGet(gnode.d, "runner")
    ELSE IF r # None THEN r ELSE None

\* The fields __init__ leaves for parsed documents snode, rnode, gnode: the
\* documents are built as objects and merged into the initial config
StoreOf(type, g, r, snode, rnode, gnode, order) ==
    LET gb == Build(gnode.d, InitialHeap)
        rb == Build(rnode.d, gb.h)
        sb == BuildDoc(snode, rb.h)
        st == update_global_config(InitialConfig, sb.h, sb.dv, rb.d, gb.d, order)
    IN [config_type |-> type, game |-> g, runner |-> r,
        system_config |-> sb.dv, runner_config |-> rb.d, game_config |-> gb.d,
        config |-> st.config,
        heap |-> Live(st.heap, st.config, sb.dv, rb.d, gb.d),
        err |-> st.err]

\* Fields of the object after __init__(runner=r, game=g) reading disk d,
\* with err the exception update_global_config raised, if any
NewStore(d, r, g, order) ==
    LET type == IF g # None THEN "game" ELSE IF r # None THEN "runner" ELSE "system"
        gnode == read_yaml_from_file(d, game_config_path(g))
        r1 == RunnerOf(r, g, gnode)
        rnode == read_yaml_from_file(d, runner_config_path(r1))
        snode == read_yaml_from_file(d, system_config_path)
    IN StoreOf(type, g, r1, snode, rnode, gnode, order)

\* The state left when a constructor raises: the caller gets no object
NullStore ==
    [config_type |-> "none", game |-> None, runner |-> None,
     system_config |-> DocValue(EmptyDoc), runner_config |-> EmptyDoc,
     game_config |-> EmptyDoc, config |-> EmptyDoc, heap |-> EmptyMap,
     err |-> "none"]

\* Arguments (runner, game) the constructor is called with
CtorArgs == {<<None, None>>, <<"foo", None>>, <<None, "g1">>, <<"bar", "g1">>}

SetStore(n) ==
    /\ config_type' = n.config_type
    /\ game' = n.game
    /\ runner' = n.runner
    /\ system_config' = n.system_config
    /\ runner_config' = n.runner_config
    /\ game_config' = n.game_config
    /\ config' = n.config
    /\ heap' = n.heap

\* A constructor that raises leaves the caller without an object, whatever
\* the loops had done before, so the iteration order does not show here.
Constructed(d, r, g) ==
    LET n == NewStore(d, r, g, CanonOrder)
    IN IF n.err = "none" THEN n ELSE [NullStore EXCEPT !.err = n.err]

Construct(r, g) ==
    /\ steps < MaxSteps
    /\ LET n == Constructed(disk, r, g)
       IN SetStore(n) /\ err' = n.err
    /\ lastOp' = [op |-> "construct", a1 |-> r, a2 |-> g, val |-> ScalarNode("")]
    /\ steps' = steps + 1
    /\ UNCHANGED disk

----------------------------------------------------------------------------
(* LutrisConfig.__setitem__ *)

\* The store with the active layer's document assigned, before the merge
AssignedKeepKeys(key, value) ==
    LET id == NewId(heap)
        v == IF value.isMap THEN RefVal(id) ELSE ScalarVal(value.s)
        h == IF value.isMap THEN Put(heap, id, value.m) ELSE heap
        b == BuildDoc(value, heap)
        old == system_config.d
    IN IF config_type = "game"
       THEN [sys |-> system_config, run |-> runner_config,
             gm |-> Put(game_config, key, v), h |-> h]
       ELSE IF config_type = "runner"
       THEN [sys |-> system_config, run |-> Put(runner_config, key, v),
             gm |-> game_config, h |-> h]
       ELSE [sys |-> [b.dv EXCEPT !.d = [k \in DOMAIN old \cup DOMAIN b.dv.d |->
                                           IF k \in DOMAIN b.dv.d THEN b.dv.d[k]
                                           ELSE old[k]]],
             run |-> runner_config, gm |-> game_config, h |-> b.h]
Assigned(key, value) ==
    LET id == NewId(heap)
        v == IF value.isMap THEN RefVal(id) ELSE ScalarVal(value.s)
        h == IF value.isMap THEN Put(heap, id, value.m) ELSE heap
        b == BuildDoc(value, heap)
    IN IF config_type = "game"
       THEN [sys |-> system_config, run |-> runner_config,
             gm |-> Put(game_config, key, v), h |-> h]
       ELSE IF config_type = "runner"
       THEN [sys |-> system_config, run |-> Put(runner_config, key, v),
             gm |-> game_config, h |-> h]
       ELSE [sys |-> b.dv, run |-> runner_config, gm |-> game_config, h |-> b.h]

\* Fields after self.update_global_config() on documents sys, run, gm
Recomputed(sys, run, gm, h, order) ==
    LET st == update_global_config(config, h, sys, run, gm, order)
    IN [config_type |-> config_type, game |-> game, runner |-> runner,
        system_config |-> sys, runner_config |-> run, game_config |-> gm,
        config |-> st.config,
        heap |-> Live(st.heap, st.config, sys, run, gm),
        err |-> st.err]

\* Values written to a store of the system layer under a key
SysWriteVals(key) ==
    IF key = "a" THEN {DocNode(AIs(MapNode(MB))), DocNode(EmptyDocNode)}
    ELSE IF key = "runner" THEN {DocNode(AIs(MapNode(MB))), ScalarDocNode("5")}
    ELSE {}

\* Values written to a store of the runner or the game layer under a key
LayerWriteVals(key) == IF key = "system" THEN {} ELSE WriteVals(key) \ {ScalarNode("foo")}

AllWriteVals ==
    UNION {SysWriteVals(k) \cup LayerWriteVals(k) : k \in TKeys}

SetItem(key, value) ==
    /\ ~NoStore
    /\ steps < MaxSteps
    /\ value \in (IF config_type = "system" THEN SysWriteVals(key)
                  ELSE LayerWriteVals(key))
    /\ LET a == Assigned(key, value)
           n0 == Recomputed(a.sys, a.run, a.gm, a.h, CanonOrder)
       IN \E order \in OrdersFor(n0.err) :
            LET n == IF n0.err = "none" THEN n0
                     ELSE Recomputed(a.sys, a.run, a.gm, a.h, order)
            IN SetStore(n) /\ err' = n.err
    /\ lastOp' = [op |-> "setitem", a1 |-> key, a2 |-> None, val |-> value]
    /\ steps' = steps + 1
    /\ UNCHANGED disk

----------------------------------------------------------------------------
(* LutrisConfig.save and LutrisConfig.remove *)

ActiveDoc ==
    IF config_type = "system" THEN system_config
    ELSE IF config_type = "runner" THEN DocValue(runner_config)
    ELSE DocValue(game_config)

ActivePathOfSystem == system_config_path
ActivePath ==
    IF config_type = "system" THEN system_config_path
    ELSE IF config_type = "runner" THEN runner_config_path(runner)
    ELSE game_config_path(game)

Save ==
    /\ ~NoStore
    /\ steps < MaxSteps
    /\ disk' = write_yaml_to_file(disk, ActivePath, ActiveDoc, heap)
    /\ LET n0 == Recomputed(system_config, runner_config, game_config, heap, CanonOrder)
       IN \E order \in OrdersFor(n0.err) :
            LET n == IF n0.err = "none" THEN n0
                     ELSE Recomputed(system_config, runner_config, game_config,
                                     heap, order)
            IN SetStore(n) /\ err' = n.err
    /\ lastOp' = [op |-> "save", a1 |-> None, a2 |-> None, val |-> ScalarNode("")]
    /\ steps' = steps + 1

\* os.path.exists(None) raises TypeError (Python 2)
Remove(g) ==
    /\ ~NoStore
    /\ steps < MaxSteps
    /\ IF game_config_path(game) = None
       THEN err' = "TypeError" /\ UNCHANGED disk
       ELSE /\ err' = "none"
            /\ IF PathExists(disk, game_config_path(game))
               THEN disk' = [disk EXCEPT ![game_config_path(game)] = MissingFile]
               ELSE UNCHANGED disk
    /\ lastOp' = [op |-> "remove", a1 |-> g, a2 |-> None, val |-> ScalarNode("")]
    /\ steps' = steps + 1
    /\ UNCHANGED <<config_type, game, runner, system_config, runner_config,
                   game_config, config, heap>>

NullOp == [op |-> "init", a1 |-> None, a2 |-> None, val |-> ScalarNode("")]

\* A store constructed over one of the starting disks
Init ==
    /\ disk \in InitDisks
    /\ \E args \in CtorArgs :
         LET n == Constructed(disk, args[1], args[2])
         IN /\ config_type = n.config_type
            /\ game = n.game
            /\ runner = n.runner
            /\ system_config = n.system_config
            /\ runner_config = n.runner_config
            /\ game_config = n.game_config
            /\ config = n.config
            /\ heap = n.heap
            /\ err = n.err
            /\ lastOp = [op |-> "construct", a1 |-> args[1], a2 |-> args[2],
                         val |-> ScalarNode("")]
    /\ steps = 0

Next ==
    \/ \E args \in CtorArgs : Construct(args[1], args[2])
    \/ \E key \in TKeys, value \in AllWriteVals : SetItem(key, value)
    \/ Save
    \/ \E g \in {None, "g2"} : Remove(g)

Spec == Init /\ [][Next]_vars

\* Before any store exists, over every disk of LoadDisks: construction alone
InitLoad ==
    /\ disk \in LoadDisks
    /\ config_type = "none"
    /\ game = None
    /\ runner = None
    /\ system_config = DocValue(EmptyDoc)
    /\ runner_config = EmptyDoc
    /\ game_config = EmptyDoc
    /\ config = EmptyDoc
    /\ heap = EmptyMap
    /\ err = "none"
    /\ lastOp = NullOp
    /\ steps = 0

NextLoad ==
    \E r \in RunnerNames \cup {None}, g \in GameSlugs \cup {None} :
        NoStore /\ lastOp.op = "init" /\ Construct(r, g)

SpecLoad == InitLoad /\ [][NextLoad]_vars

----------------------------------------------------------------------------
(* Properties *)

\* The three documents as read_yaml_from_file parses them from the disk for
\* the identity of the present store
DiskSys == read_yaml_from_file(disk, system_config_path)
DiskRun == read_yaml_from_file(disk, runner_config_path(runner))
DiskGame == read_yaml_from_file(disk, game_config_path(game))

JustConstructed == lastOp.op = "construct" /\ ~NoStore

\* Contents of the active layer's in-memory document
ActiveContent == DeepDoc(ActiveDoc, heap)

\* The store a fresh construction computes from the contents of the three
\* current in-memory documents
Fresh ==
    StoreOf(config_type, game, runner, DeepDoc(system_config, heap),
            DocNode(Deep(runner_config, heap)), DocNode(Deep(game_config, heap)),
            CanonOrder)

\* C1: whenever an operation on a store has returned normally, config equals
\* the mapping the merge rule computes at a fresh construction from the
\* store's three current documents, whatever writes came before.
C1_ConfigIsFreshMerge ==
    (~NoStore /\ err = "none")
        => (Fresh.err = "none"
            /\ Deep(config, heap) = Deep(Fresh.config, Fresh.heap))

\* Layers (documents parsed from disk) that bind key k to a mapping
BindsMap(node, k) == node.isMap /\ k \in DOMAIN node.d /\ node.d[k].isMap
MapLayers(k) == {n \in {"system", "runner", "game"} :
                   BindsMap(IF n = "system" THEN DiskSys
                            ELSE IF n = "runner" THEN DiskRun ELSE DiskGame, k)}
LayerMap(node, k) == IF BindsMap(node, k) THEN node.d[k].m ELSE EmptyMap

\* Key union of the layers' mappings for k, the highest layer defining a
\* nested key giving its value
ShallowUnion(k) ==
    LET S == LayerMap(DiskSys, k)
        R == LayerMap(DiskRun, k)
        G == LayerMap(DiskGame, k)
    IN [j \in DOMAIN S \cup DOMAIN R \cup DOMAIN G |->
          IF j \in DOMAIN G THEN G[j]
          ELSE IF j \in DOMAIN R THEN R[j] ELSE S[j]]

C3_RunnerOverwritesScalar ==
    LET rdoc == read_yaml_from_file(disk, runner_config_path(lastOp.a1))
        gdoc == read_yaml_from_file(disk, game_config_path(lastOp.a2))
        sysScalar == DiskSys.isMap /\ "a" \in DOMAIN DiskSys.d
                     /\ ~DiskSys.d["a"].isMap
    IN /\ (lastOp.op = "construct" /\ lastOp.a2 = None /\ sysScalar
           /\ BindsMap(rdoc, "a"))
          => (~NoStore /\ "a" \in DOMAIN config /\ config["a"].isMap
              /\ heap[config["a"].ref] = rdoc.d["a"].m)
       /\ (lastOp.op = "construct" /\ lastOp.a2 # None /\ sysScalar
           /\ BindsMap(gdoc, "a") /\ ~NoStore /\ "a" \notin DOMAIN runner_config)
          => config["a"] = ScalarVal(DiskSys.d["a"].s)

\* Contents of the layers that are not the active one
NonActiveContent ==
    [system |-> IF config_type = "system" THEN ScalarDocNode("")
                ELSE DeepDoc(system_config, heap),
     runner |-> IF config_type = "runner" THEN EmptyDocNode
                ELSE Deep(runner_config, heap),
     game |-> IF config_type = "game" THEN EmptyDocNode
              ELSE Deep(game_config, heap)]

\* C4: an indexed write or a save that returns normally leaves the two
\* non-active layers as they were, in memory (nested mappings included) and
\* on disk; a write changes no file and a save changes only the active
\* layer's file and no document.
C4_NonActiveLayersUntouched ==
    [][(lastOp'.op \in {"setitem", "save"} /\ err' = "none")
        => /\ NonActiveContent' = NonActiveContent
           /\ \A p \in Paths : p # ActivePath => disk'[p] = disk[p]
           /\ lastOp'.op = "setitem" => disk' = disk
           /\ lastOp'.op = "save" => ActiveContent' = ActiveContent]_vars

\* C5: construction raises no error, whatever the three files hold.
C5_ConstructionNeverRaises ==
    lastOp.op = "construct" => (err = "none" /\ ~NoStore)

\* C6: the runner identity of a store constructed with a game identifier is
\* the `runner` entry of the game document on disk at construction, not the
\* runner name passed to the constructor, and no later write, save or
\* remove changes it.
C6_RunnerPinnedAtConstruction ==
    /\ []((JustConstructed /\ config_type = "game")
            => runner = DictGet(read_yaml_from_file(
                                    disk, game_config_path(lastOp.a2)).d, "runner"))
    /\ [][(config_type = "game" /\ lastOp'.op \in {"setitem", "save", "remove"})
            => runner' = runner]_vars

\* The game document now names another runner, and was saved, yet the store
\* keeps the runner pinned at construction
C6_Witness ==
    /\ config_type = "game"
    /\ lastOp.op = "save"
    /\ runner = "foo"
    /\ "runner" \in DOMAIN game_config
    /\ game_config["runner"].s = "bar"
    /\ DictGet(DiskGame.d, "runner") = "bar"

\* C7: after an indexed write on a store of the system layer, under any
\* key, system_config is exactly the written value (nothing of the former
\* document is kept), and config has been recomputed from it.
C7_SystemWriteReplacesDocument ==
    (config_type = "system" /\ lastOp.op = "setitem")
        => /\ DeepDoc(system_config, heap) = lastOp.val
           /\ (err = "none") =>
                \A k \in DOMAIN system_config.d :
                    /\ k \in DOMAIN config
                    /\ system_config.d[k].isMap =>
                         \A j \in DOMAIN heap[system_config.d[k].ref] :
                            /\ config[k].isMap
                            /\ j \in DOMAIN heap[config[k].ref]
                            /\ heap[config[k].ref][j] = heap[system_config.d[k].ref][j]

\* The empty document was written under key `a` over a document that
\* held key `a`, whose binding is gone from system_config
C7_Witness ==
    /\ config_type = "system"
    /\ lastOp.op = "setitem"
    /\ lastOp.a1 = "a"
    /\ lastOp.val = DocNode(EmptyDocNode)
    /\ DOMAIN system_config.d = {}
    /\ "a" \in DOMAIN config
    /\ err = "none"

\* The constructor arguments name the identity of the present store
SameIdentity(op) ==
    /\ op.op = "construct"
    /\ IF config_type = "game" THEN op.a2 = game
       ELSE IF config_type = "runner" THEN op.a1 = runner /\ op.a2 = None
       ELSE op.a1 = None /\ op.a2 = None

C9_RemoveDeletesGivenIdentity ==
    [][(lastOp'.op = "remove" /\ config_type = "game")
        => LET target == IF lastOp'.a1 = None THEN game ELSE lastOp'.a1
           IN disk' = [disk EXCEPT ![game_config_path(target)] = MissingFile]]_vars

\* The three documents the constructor last called reads, all empty
AllDocumentsEmpty ==
    LET gnode == read_yaml_from_file(disk, game_config_path(lastOp.a2))
        r == IF lastOp.a2 # None THEN DictGet(gnode.d, "runner") ELSE lastOp.a1
    IN /\ lastOp.op = "construct"
       /\ DiskSys = DocNode(EmptyDocNode)
       /\ read_yaml_from_file(disk, runner_config_path(r)) = DocNode(EmptyDocNode)
       /\ gnode = DocNode(EmptyDocNode)

\* C10 as stated: with the three documents empty or missing, config is the
\* empty mapping after construction.
C10_EmptyConfig ==
    (JustConstructed /\ AllDocumentsEmpty) => DOMAIN config = {}

\* C10 as amended: with the three documents empty or missing, config after
\* construction binds `system` to an empty mapping and nothing else.
C10_ConfigHoldsEmptySystem ==
    (lastOp.op = "construct" /\ AllDocumentsEmpty)
        => /\ ~NoStore
           /\ Deep(config, heap) = [k \in {"system"} |-> MapNode(EmptyMap)]

\* A game store over a malformed game file, no system file and no runner
C10_Witness ==
    /\ JustConstructed
    /\ AllDocumentsEmpty
    /\ config_type = "game"
    /\ disk[game_config_path(game)].kind = "malformed"
    /\ disk[system_config_path].kind = "missing"

====
